---- MODULE Spec2Model ----
(***************************************************************************)
(* Model of the Proxy meta-object dispatcher of                            *)
(* core/src/avm2/object/proxy_object.rs: the TObject implementation of     *)
(* ProxyObject.  Every property operation on a proxy instance either       *)
(* delegates to a script-level method in the reserved proxy namespace or   *)
(* applies an operation-specific fallback driven by the class's sealed     *)
(* flag.                                                                   *)
(*                                                                         *)
(* Each handler is an operator that computes, from its arguments and from  *)
(* the answers of its collaborators (QNameObject::from_qname and           *)
(* call_property), the pair <<result, delegate calls made>>.  One action   *)
(* per handler applies it to inputs drawn from bounded sets.               *)
(***************************************************************************)
EXTENDS Integers, Sequences, FiniteSets, TLC

VARIABLES
    pc,           \* "interpreter": ready to issue an operation; "returned": a handler has returned
    instance_of,  \* base.instance_of: the class the instance was allocated with
    base,         \* script-visible dynamic properties held by the base ScriptObjectData
    op,           \* name of the handler that ran last
    multiname,    \* its multiname argument
    arguments,    \* its other arguments (value, call arguments, index)
    env,          \* what from_qname and call_property answered during the run
    calls,        \* the call_property invocations the handler made, in order
    result        \* what the handler returned

vars == <<pc, instance_of, base, op, multiname, arguments, env, calls, result>>

----------------------------------------------------------------------------
(* Bounds of the model *)

MaxNs == 3        \* longest namespace set of a multiname
MaxArgs == 2      \* longest argument list of a call
MaxIndex == 2     \* largest enumeration index passed by the interpreter

(* A u32 is held as its two 16-bit halves, 2^32 being beyond the integers TLC can hold *)
Half == 2^16

(* The u32 congruent to the integer n modulo 2^32 *)
ToUint32(n) == [hi |-> (n \div Half) % Half, lo |-> n % Half]

----------------------------------------------------------------------------
(* Option and Result *)

None == [some |-> FALSE]
Some(x) == [some |-> TRUE, x |-> x]

Ok(v) == [ok |-> TRUE, v |-> v]
Err(e) == [ok |-> FALSE, e |-> e]

Unit == [t |-> "Unit"]

NoValue == [t |-> "NoValue"]

----------------------------------------------------------------------------
(* Values *)

Undefined == [t |-> "Undefined"]
Bool(b) == [t |-> "Bool", b |-> b]
Number(n) == [t |-> "Number", n |-> n]
String(s) == [t |-> "String", s |-> s]
ScriptObject(id) == [t |-> "Object", id |-> id]

(* QName::new(namespace, local_name) *)
QName(ns, name) == [ns |-> ns, name |-> name]

(* The Value holding a QNameObject *)
QNameValue(q) == [t |-> "QName", q |-> q]

(* Multiname::new(namespace, name): one namespace, a local name *)
MultinameNew(ns, name) == [name |-> Some(name), ns |-> <<ns>>]

----------------------------------------------------------------------------
(* Namespaces *)

NsAny == [kind |-> "Any", uri |-> ""]
NsPublic == [kind |-> "Package", uri |-> ""]
NsNamed == [kind |-> "Namespace", uri |-> "urn:a"]
NsPrivate == [kind |-> "Private", uri |-> ""]

(* activation.avm2().proxy_namespace *)
proxy_namespace == [kind |-> "Namespace", uri |-> "http://www.adobe.com/2006/actionscript/flash/proxy"]

is_any(ns) == ns.kind = "Any"
is_public(ns) == ns.kind = "Package" /\ ns.uri = ""
is_namespace(ns) == ns.kind = "Namespace"

(* The filter of the namespace scan *)
Qualifies(ns) == is_any(ns) \/ is_public(ns) \/ is_namespace(ns)

----------------------------------------------------------------------------
(* Errors *)

(* format!("<msg> {:?}", multiname.local_name()).into() *)
NamedError(msg, name) == [msg |-> msg, name |-> name]

(* "<msg>".into() *)
PlainError(msg) == [msg |-> msg]

(* An error thrown by script code run by call_property *)
Thrown(id) == [thrown |-> id]

(* The failure of Option::unwrap() on None *)
Panic == [panic |-> "called Option::unwrap() on a None value"]

----------------------------------------------------------------------------
(* Coercions of Value *)

(* String -> number: decimal digit strings convert to their value, the     *)
(* empty string to 0, anything else to NaN, which ToUint32 maps to 0.      *)
StringToNumber(s) ==
    CASE s = "" -> 0
      [] s = "0" -> 0
      [] s = "3" -> 3
      [] OTHER -> 0

coerce_to_boolean(v) ==
    CASE v.t = "Undefined" -> FALSE
      [] v.t = "Bool" -> v.b
      [] v.t = "Number" -> v.n # 0
      [] v.t = "String" -> v.s # ""
      [] OTHER -> TRUE

coerce_to_u32(v) ==
    CASE v.t = "Undefined" -> Ok(ToUint32(0))
      [] v.t = "Bool" -> Ok(ToUint32(IF v.b THEN 1 ELSE 0))
      [] v.t = "Number" -> Ok(ToUint32(v.n))
      [] v.t = "String" -> Ok(ToUint32(StringToNumber(v.s)))
      [] OTHER -> Err(Thrown("TypeError: cannot convert object to primitive"))

----------------------------------------------------------------------------
(* Collaborators *)

(* self.instance_of_class_definition().map(|c| c.read().is_sealed()).unwrap_or(false) *)
IsSealed(self) ==
    IF self.instance_of.some THEN self.instance_of.x.sealed ELSE FALSE

(* QNameObject::from_qname(activation, qname)?: answer is "ok" or "err" *)
from_qname(q, answer) ==
    IF answer = "ok" THEN Ok(QNameValue(q)) ELSE Err(Thrown("from_qname failed"))

(* The record of one self.call_property(&Multiname::new(proxy_namespace, name), args, activation) *)
call_property(name, args) ==
    [name |-> MultinameNew(proxy_namespace, name), args |-> args]

(* What a handler produces: its return value, the delegate calls it made, the base storage it leaves *)
Outcome(self, r, cs) == [result |-> r, calls |-> cs, base |-> self.base]

(* Variant of the scan that keeps going and settles on the last qualifying namespace *)
FirstQualifying_last(namespace_set) ==
    LET Q == {i \in 1..Len(namespace_set) : Qualifies(namespace_set[i])}
    IN  IF Q = {} THEN 0 ELSE CHOOSE i \in Q : \A j \in Q : i >= j

(* for namespace in multiname.namespace_set() { if qualifies { ...; return } }:      *)
(* the position of the namespace the loop returns on, 0 when it runs to the end.    *)
FirstQualifying(namespace_set) ==
    LET Q == {i \in 1..Len(namespace_set) : Qualifies(namespace_set[i])}
    IN  IF Q = {} THEN 0 ELSE CHOOSE i \in Q : \A j \in Q : i <= j

(* if let Some(local_name) = multiname.local_name() { for ... } *)
Scan(mn) == IF mn.name.some THEN FirstQualifying(mn.ns) ELSE 0

----------------------------------------------------------------------------
(* Handlers *)

(* Variant of GET whose fallback does not consult the sealed flag *)
get_property_local_no_sealed_check(self, mn, e) ==
    LET i == Scan(mn) IN
    IF i # 0
    THEN LET qname == from_qname(QName(mn.ns[i], mn.name.x), e.qname) IN
         IF ~qname.ok
         THEN Outcome(self, qname, <<>>)
         ELSE Outcome(self, e.ret, <<call_property("getProperty", <<qname.v>>)>>)
    ELSE Outcome(self, Ok(Undefined), <<>>)

get_property_local(self, mn, e) ==
    LET i == Scan(mn) IN
    IF i # 0
    THEN LET qname == from_qname(QName(mn.ns[i], mn.name.x), e.qname) IN
         IF ~qname.ok
         THEN Outcome(self, qname, <<>>)
         ELSE Outcome(self, e.ret, <<call_property("getProperty", <<qname.v>>)>>)
    ELSE IF ~IsSealed(self)
         THEN Outcome(self, Ok(Undefined), <<>>)
         ELSE Outcome(self, Err(NamedError("Cannot get undefined property", mn.name)), <<>>)

(* Variant of SET whose dynamic fallback does not ask for a local name *)
set_property_local_any_name(self, mn, value, e) ==
    LET i == Scan(mn) IN
    IF i # 0
    THEN LET qname == from_qname(QName(mn.ns[i], mn.name.x), e.qname) IN
         IF ~qname.ok
         THEN Outcome(self, qname, <<>>)
         ELSE Outcome(self,
                      IF e.ret.ok THEN Ok(Unit) ELSE e.ret,
                      <<call_property("setProperty", <<qname.v, value>>)>>)
    ELSE IF ~IsSealed(self)
         THEN Outcome(self, Ok(Unit), <<>>)
         ELSE Outcome(self, Err(NamedError("Cannot set undefined property", mn.name)), <<>>)

(* Variant of SET whose dynamic fallback stores the property in the base object *)
set_property_local_stores(self, mn, value, e) ==
    LET i == Scan(mn) IN
    IF i # 0
    THEN LET qname == from_qname(QName(mn.ns[i], mn.name.x), e.qname) IN
         IF ~qname.ok
         THEN Outcome(self, qname, <<>>)
         ELSE Outcome(self,
                      IF e.ret.ok THEN Ok(Unit) ELSE e.ret,
                      <<call_property("setProperty", <<qname.v, value>>)>>)
    ELSE IF ~IsSealed(self)
         THEN IF mn.name.some
              THEN [result |-> Ok(Unit), calls |-> <<>>, base |-> self.base \cup {mn.name.x}]
              ELSE Outcome(self, Err(PlainError("Cannot set undefined property using any name")), <<>>)
         ELSE Outcome(self, Err(NamedError("Cannot set undefined property", mn.name)), <<>>)

(* Variant of SET that discards the delegate's failure along with its value *)
set_property_local_swallow(self, mn, value, e) ==
    LET i == Scan(mn) IN
    IF i # 0
    THEN LET qname == from_qname(QName(mn.ns[i], mn.name.x), e.qname) IN
         IF ~qname.ok
         THEN Outcome(self, qname, <<>>)
         ELSE Outcome(self, Ok(Unit), <<call_property("setProperty", <<qname.v, value>>)>>)
    ELSE IF ~IsSealed(self)
         THEN IF mn.name.some
              THEN Outcome(self, Ok(Unit), <<>>)
              ELSE Outcome(self, Err(PlainError("Cannot set undefined property using any name")), <<>>)
         ELSE Outcome(self, Err(NamedError("Cannot set undefined property", mn.name)), <<>>)

set_property_local(self, mn, value, e) ==
    LET i == Scan(mn) IN
    IF i # 0
    THEN LET qname == from_qname(QName(mn.ns[i], mn.name.x), e.qname) IN
         IF ~qname.ok
         THEN Outcome(self, qname, <<>>)
         ELSE Outcome(self,
                      IF e.ret.ok THEN Ok(Unit) ELSE e.ret,
                      <<call_property("setProperty", <<qname.v, value>>)>>)
    ELSE IF ~IsSealed(self)
         THEN IF mn.name.some
              THEN Outcome(self, Ok(Unit), <<>>)
              ELSE Outcome(self, Err(PlainError("Cannot set undefined property using any name")), <<>>)
         ELSE Outcome(self, Err(NamedError("Cannot set undefined property", mn.name)), <<>>)

(* Variant of CALL with the sealed/dynamic fallback of GET *)
call_property_local_fallback(self, mn, args, e) ==
    LET i == Scan(mn) IN
    IF i # 0
    THEN LET qname == from_qname(QName(mn.ns[i], mn.name.x), e.qname) IN
         IF ~qname.ok
         THEN Outcome(self, qname, <<>>)
         ELSE Outcome(self, e.ret, <<call_property("callProperty", <<qname.v>> \o args)>>)
    ELSE IF ~IsSealed(self)
         THEN Outcome(self, Ok(Undefined), <<>>)
         ELSE Outcome(self, Err(NamedError("Attempted to call undefined property", mn.name)), <<>>)

(* Variant of CALL that passes the QName alone *)
call_property_local_no_args(self, mn, args, e) ==
    LET i == Scan(mn) IN
    IF i # 0
    THEN LET qname == from_qname(QName(mn.ns[i], mn.name.x), e.qname) IN
         IF ~qname.ok
         THEN Outcome(self, qname, <<>>)
         ELSE Outcome(self, e.ret, <<call_property("callProperty", <<qname.v>>)>>)
    ELSE Outcome(self, Err(NamedError("Attempted to call undefined property", mn.name)), <<>>)

call_property_local(self, mn, args, e) ==
    LET i == Scan(mn) IN
    IF i # 0
    THEN LET qname == from_qname(QName(mn.ns[i], mn.name.x), e.qname) IN
         IF ~qname.ok
         THEN Outcome(self, qname, <<>>)
         ELSE Outcome(self, e.ret, <<call_property("callProperty", <<qname.v>> \o args)>>)
    ELSE Outcome(self, Err(NamedError("Attempted to call undefined property", mn.name)), <<>>)

(* Variant of DELETE whose fallback reports success on every class *)
delete_property_local_always_true(self, mn, e) ==
    LET i == Scan(mn) IN
    IF i # 0
    THEN LET qname == from_qname(QName(mn.ns[i], mn.name.x), e.qname) IN
         IF ~qname.ok
         THEN Outcome(self, qname, <<>>)
         ELSE Outcome(self,
                      IF e.ret.ok THEN Ok(coerce_to_boolean(e.ret.v)) ELSE e.ret,
                      <<call_property("deleteProperty", <<qname.v>>)>>)
    ELSE Outcome(self, Ok(TRUE), <<>>)

delete_property_local(self, mn, e) ==
    LET i == Scan(mn) IN
    IF i # 0
    THEN LET qname == from_qname(QName(mn.ns[i], mn.name.x), e.qname) IN
         IF ~qname.ok
         THEN Outcome(self, qname, <<>>)
         ELSE Outcome(self,
                      IF e.ret.ok THEN Ok(coerce_to_boolean(e.ret.v)) ELSE e.ret,
                      <<call_property("deleteProperty", <<qname.v>>)>>)
    ELSE Outcome(self, Ok(~IsSealed(self)), <<>>)

(* Variant of the existence test that scans the namespaces and falls back like DELETE *)
has_property_via_in_scan(self, name, e) ==
    IF ~name.name.some
    THEN Outcome(self, Panic, <<>>)
    ELSE IF Scan(name) # 0
         THEN Outcome(self,
                      IF e.ret.ok THEN Ok(coerce_to_boolean(e.ret.v)) ELSE e.ret,
                      <<call_property("hasProperty", <<String(name.name.x)>>)>>)
         ELSE Outcome(self, Ok(~IsSealed(self)), <<>>)

has_property_via_in(self, name, e) ==
    IF ~name.name.some
    THEN Outcome(self, Panic, <<>>)
    ELSE Outcome(self,
                 IF e.ret.ok THEN Ok(coerce_to_boolean(e.ret.v)) ELSE e.ret,
                 <<call_property("hasProperty", <<String(name.name.x)>>)>>)

(* Variant of the enumeration step that reports index 0 as the end of the enumeration *)
get_next_enumerant_zero_none(self, last_index, e) ==
    LET cs == <<call_property("nextNameIndex", <<Number(last_index)>>)>> IN
    IF ~e.ret.ok
    THEN Outcome(self, e.ret, cs)
    ELSE LET n == coerce_to_u32(e.ret.v) IN
         IF ~n.ok THEN Outcome(self, n, cs)
         ELSE IF n.v = ToUint32(0) THEN Outcome(self, Ok(None), cs)
         ELSE Outcome(self, Ok(Some(n.v)), cs)

get_next_enumerant(self, last_index, e) ==
    LET cs == <<call_property("nextNameIndex", <<Number(last_index)>>)>> IN
    IF ~e.ret.ok
    THEN Outcome(self, e.ret, cs)
    ELSE LET n == coerce_to_u32(e.ret.v) IN
         IF ~n.ok THEN Outcome(self, n, cs) ELSE Outcome(self, Ok(Some(n.v)), cs)

get_enumerant_name(self, index, e) ==
    Outcome(self, e.ret, <<call_property("nextName", <<Number(index)>>)>>)

get_enumerant_value(self, index, e) ==
    Outcome(self, e.ret, <<call_property("nextValue", <<Number(index)>>)>>)

----------------------------------------------------------------------------
(* Inputs of the operations and answers of the collaborators *)

SeqsUpTo(S, n) == UNION {[1..k -> S] : k \in 0..n}

Namespaces == {NsAny, NsPublic, NsNamed, NsPrivate}

LocalNames == {None, Some("foo"), Some("bar")}

Multinames == [name : LocalNames, ns : SeqsUpTo(Namespaces, MaxNs)]

ArgValues == {Undefined, Number(7)}

ArgLists == SeqsUpTo(ArgValues, MaxArgs)

Indices == 0..MaxIndex

DelegateValues ==
    {Undefined, Bool(FALSE), Bool(TRUE), Number(0), Number(3), Number(-1),
     String("hit"), String("3"), ScriptObject(1)}

DelegateResults == {Ok(v) : v \in DelegateValues} \cup {Err(Thrown("E1")), Err(Thrown("E2"))}

Envs == [qname : {"ok", "err"}, ret : DelegateResults]

EnvsNoQName == [qname : {"ok"}, ret : DelegateResults]

----------------------------------------------------------------------------
(* The state machine *)

Self == [instance_of |-> instance_of, base |-> base]

(* proxy_allocator: ScriptObjectData::new(class), empty storage *)
Init ==
    /\ pc = "interpreter"
    /\ instance_of \in {Some([sealed |-> b]) : b \in BOOLEAN}
    /\ base = {}
    /\ op = "none"
    /\ multiname = NoValue
    /\ arguments = <<>>
    /\ env = NoValue
    /\ calls = <<>>
    /\ result = NoValue

(* A handler ran to completion and returned r *)
Returned(name, mn, args, e, r) ==
    /\ pc' = "returned"
    /\ op' = name
    /\ multiname' = mn
    /\ arguments' = args
    /\ env' = e
    /\ calls' = r.calls
    /\ result' = r.result
    /\ base' = r.base
    /\ UNCHANGED instance_of

GetPropertyLocal ==
    /\ pc = "interpreter"
    /\ \E mn \in Multinames, e \in Envs :
          Returned("get_property_local", mn, <<>>, e, get_property_local(Self, mn, e))

SetPropertyLocal ==
    /\ pc = "interpreter"
    /\ \E mn \in Multinames, value \in ArgValues, e \in Envs :
          Returned("set_property_local", mn, <<value>>, e, set_property_local(Self, mn, value, e))

CallPropertyLocal ==
    /\ pc = "interpreter"
    /\ \E mn \in Multinames, args \in ArgLists, e \in Envs :
          Returned("call_property_local", mn, args, e, call_property_local(Self, mn, args, e))

DeletePropertyLocal ==
    /\ pc = "interpreter"
    /\ \E mn \in Multinames, e \in Envs :
          Returned("delete_property_local", mn, <<>>, e, delete_property_local(Self, mn, e))

HasPropertyViaIn ==
    /\ pc = "interpreter"
    /\ \E mn \in Multinames, e \in EnvsNoQName :
          Returned("has_property_via_in", mn, <<>>, e, has_property_via_in(Self, mn, e))

GetNextEnumerant ==
    /\ pc = "interpreter"
    /\ \E last_index \in Indices, e \in EnvsNoQName :
          Returned("get_next_enumerant", NoValue, <<last_index>>, e, get_next_enumerant(Self, last_index, e))

GetEnumerantName ==
    /\ pc = "interpreter"
    /\ \E index \in Indices, e \in EnvsNoQName :
          Returned("get_enumerant_name", NoValue, <<index>>, e, get_enumerant_name(Self, index, e))

GetEnumerantValue ==
    /\ pc = "interpreter"
    /\ \E index \in Indices, e \in EnvsNoQName :
          Returned("get_enumerant_value", NoValue, <<index>>, e, get_enumerant_value(Self, index, e))

(* The interpreter takes the result and goes on to its next operation *)
Resume ==
    /\ pc = "returned"
    /\ pc' = "interpreter"
    /\ op' = "none"
    /\ multiname' = NoValue
    /\ arguments' = <<>>
    /\ env' = NoValue
    /\ calls' = <<>>
    /\ result' = NoValue
    /\ UNCHANGED <<instance_of, base>>

Next ==
    \/ GetPropertyLocal
    \/ SetPropertyLocal
    \/ CallPropertyLocal
    \/ DeletePropertyLocal
    \/ HasPropertyViaIn
    \/ GetNextEnumerant
    \/ GetEnumerantName
    \/ GetEnumerantValue
    \/ Resume

Spec == Init /\ [][Next]_vars

----------------------------------------------------------------------------
(* Vocabulary of the properties *)

ScanOps == {"get_property_local", "set_property_local", "call_property_local", "delete_property_local"}

HasQualifying(mn) == \E i \in 1..Len(mn.ns) : Qualifies(mn.ns[i])

Sealed == instance_of.some /\ instance_of.x.sealed

DelegateOf(o) ==
    CASE o = "get_property_local" -> "getProperty"
      [] o = "set_property_local" -> "setProperty"
      [] o = "call_property_local" -> "callProperty"
      [] o = "delete_property_local" -> "deleteProperty"
      [] o = "has_property_via_in" -> "hasProperty"
      [] o = "get_next_enumerant" -> "nextNameIndex"
      [] o = "get_enumerant_name" -> "nextName"
      [] o = "get_enumerant_value" -> "nextValue"

(* The first argument of the only delegate call is the QName of the first qualifying namespace *)
OneCallOnFirstQualifying ==
    /\ Len(calls) = 1
    /\ \E i \in 1..Len(multiname.ns) :
          /\ Qualifies(multiname.ns[i])
          /\ \A j \in 1..(i - 1) : ~Qualifies(multiname.ns[j])
          /\ calls[1].args[1] = QNameValue(QName(multiname.ns[i], multiname.name.x))

----------------------------------------------------------------------------
(* C1 as stated: for every multiname whose namespace set holds a qualifying *)
(* namespace, GET/SET/CALL/DELETE make exactly one delegate call, on the    *)
(* QName of the first qualifying namespace.                                 *)
C1_AsStated ==
    (pc = "returned" /\ op \in ScanOps /\ HasQualifying(multiname))
        => OneCallOnFirstQualifying

(* C1 amended: for every multiname that has a local name and whose          *)
(* namespace set holds a qualifying namespace, when the QName object is     *)
(* constructed successfully, GET/SET/CALL/DELETE make exactly one delegate  *)
(* call, and its QName is built from the first qualifying namespace in      *)
(* declared order; without a local name, or when the construction of the    *)
(* QName object fails, no delegate is called.                               *)
C1_FirstQualifyingWins ==
    (pc = "returned" /\ op \in ScanOps /\ HasQualifying(multiname))
        => IF multiname.name.some /\ env.qname = "ok"
           THEN OneCallOnFirstQualifying
           ELSE calls = <<>>

C1_Witness ==
    /\ pc = "returned"
    /\ op = "call_property_local"
    /\ multiname = [name |-> Some("foo"), ns |-> <<NsPrivate, NsNamed, NsAny>>]
    /\ env.qname = "ok"
    /\ Len(calls) = 1
    /\ calls[1].args[1] = QNameValue(QName(NsNamed, "foo"))

(* C2: GET with no qualifying namespace, or with no local name, calls no    *)
(* delegate; on a sealed class it fails with the undefined-property error   *)
(* carrying the local name (or its absence), on a dynamic class it returns  *)
(* undefined.                                                               *)
C2_GetFallback ==
    (pc = "returned" /\ op = "get_property_local"
        /\ (~HasQualifying(multiname) \/ ~multiname.name.some))
        => /\ calls = <<>>
           /\ Sealed => result = Err(NamedError("Cannot get undefined property", multiname.name))
           /\ ~Sealed => result = Ok(Undefined)

C2_Witness ==
    /\ pc = "returned"
    /\ op = "get_property_local"
    /\ Sealed
    /\ multiname = [name |-> Some("foo"), ns |-> <<NsPrivate>>]
    /\ calls = <<>>
    /\ result = Err(NamedError("Cannot get undefined property", Some("foo")))

(* C3 as stated: SET with neither a qualifying namespace nor a local name   *)
(* fails with the InvalidSetTarget error on sealed and dynamic classes      *)
(* alike.                                                                   *)
C3_AsStated ==
    (pc = "returned" /\ op = "set_property_local"
        /\ ~HasQualifying(multiname) /\ ~multiname.name.some)
        => result = Err(PlainError("Cannot set undefined property using any name"))

(* C3 amended: SET with neither a qualifying namespace nor a local name     *)
(* always fails and calls no delegate: with the InvalidSetTarget error on a *)
(* dynamic class, with the undefined-property error (carrying the absent    *)
(* name) on a sealed class.                                                 *)
C3_SetWithoutName ==
    (pc = "returned" /\ op = "set_property_local"
        /\ ~HasQualifying(multiname) /\ ~multiname.name.some)
        => /\ calls = <<>>
           /\ ~Sealed => result = Err(PlainError("Cannot set undefined property using any name"))
           /\ Sealed => result = Err(NamedError("Cannot set undefined property", None))

C3_Witness ==
    /\ pc = "returned"
    /\ op = "set_property_local"
    /\ ~Sealed
    /\ multiname = [name |-> None, ns |-> <<NsPrivate>>]
    /\ result = Err(PlainError("Cannot set undefined property using any name"))

(* C4: SET on a dynamic class with a local name and no qualifying namespace *)
(* returns success, calls no delegate and leaves the base storage as it     *)
(* was.                                                                     *)
C4_SetDropped ==
    [][(pc' = "returned" /\ op' = "set_property_local" /\ ~Sealed
          /\ multiname'.name.some /\ ~HasQualifying(multiname'))
          => (result' = Ok(Unit) /\ calls' = <<>> /\ base' = base)]_vars

C4_Witness ==
    /\ pc = "returned"
    /\ op = "set_property_local"
    /\ ~Sealed
    /\ multiname = [name |-> Some("foo"), ns |-> <<NsPrivate, NsPrivate>>]
    /\ result = Ok(Unit)
    /\ calls = <<>>

(* C5: CALL with no qualifying namespace fails with the error naming the    *)
(* local name on sealed and dynamic classes alike, and calls no delegate.   *)
C5_CallAlwaysFails ==
    (pc = "returned" /\ op = "call_property_local" /\ ~HasQualifying(multiname))
        => /\ calls = <<>>
           /\ result = Err(NamedError("Attempted to call undefined property", multiname.name))

C5_Witness ==
    /\ pc = "returned"
    /\ op = "call_property_local"
    /\ ~Sealed
    /\ multiname = [name |-> Some("foo"), ns |-> <<NsPrivate>>]
    /\ Len(arguments) = 2
    /\ result = Err(NamedError("Attempted to call undefined property", Some("foo")))

(* C6: DELETE with no qualifying namespace never fails and calls no         *)
(* delegate: it returns true on a dynamic class and false on a sealed one.  *)
C6_DeleteFallback ==
    (pc = "returned" /\ op = "delete_property_local" /\ ~HasQualifying(multiname))
        => /\ calls = <<>>
           /\ result = Ok(~Sealed)

C6_Witness ==
    /\ pc = "returned"
    /\ op = "delete_property_local"
    /\ Sealed
    /\ multiname = [name |-> Some("foo"), ns |-> <<NsPrivate>>]
    /\ result = Ok(FALSE)

(* C7: the existence test, given a multiname with a local name, makes       *)
(* exactly one hasProperty call whose only argument is the local name and   *)
(* returns the boolean coercion of its result, whatever the sealed flag and *)
(* the namespace set.                                                       *)
C7_HasAlwaysDelegates ==
    (pc = "returned" /\ op = "has_property_via_in" /\ multiname.name.some)
        => /\ calls = <<[name |-> MultinameNew(proxy_namespace, "hasProperty"),
                         args |-> <<String(multiname.name.x)>>]>>
           /\ env.ret.ok => result = Ok(coerce_to_boolean(env.ret.v))
           /\ env.ret = Ok(Number(0)) => result = Ok(FALSE)
           /\ env.ret = Ok(String("hit")) => result = Ok(TRUE)

C7_Witness ==
    /\ pc = "returned"
    /\ op = "has_property_via_in"
    /\ Sealed
    /\ multiname = [name |-> Some("foo"), ns |-> <<>>]
    /\ env.ret = Ok(String("hit"))
    /\ Len(calls) = 1
    /\ result = Ok(TRUE)

(* C8: a successful get_next_enumerant returns a present index, the u32     *)
(* coercion of what nextNameIndex(last_index) returned, 0 included;         *)
(* get_enumerant_name and get_enumerant_value return what nextName(index)   *)
(* and nextValue(index) returned, unmodified.                               *)
C8_EnumerationStep ==
    /\ (pc = "returned" /\ op = "get_next_enumerant")
          => /\ calls = <<[name |-> MultinameNew(proxy_namespace, "nextNameIndex"),
                           args |-> <<Number(arguments[1])>>]>>
             /\ result.ok => /\ env.ret.ok
                             /\ result.v.some
                             /\ result.v.x = coerce_to_u32(env.ret.v).v
             /\ env.ret = Ok(Number(3)) => result = Ok(Some([hi |-> 0, lo |-> 3]))
             /\ env.ret = Ok(Number(0)) => result = Ok(Some([hi |-> 0, lo |-> 0]))
             /\ env.ret = Ok(Number(-1)) => result = Ok(Some([hi |-> 65535, lo |-> 65535]))
    /\ (pc = "returned" /\ op \in {"get_enumerant_name", "get_enumerant_value"})
          => /\ calls = <<[name |-> MultinameNew(proxy_namespace, DelegateOf(op)),
                           args |-> <<Number(arguments[1])>>]>>
             /\ result = env.ret

C8_Witness ==
    /\ pc = "returned"
    /\ op = "get_next_enumerant"
    /\ arguments = <<2>>
    /\ env.ret = Ok(Number(0))
    /\ result = Ok(Some([hi |-> 0, lo |-> 0]))

(* C9: on the delegation path each of GET/SET/CALL/DELETE calls only the    *)
(* delegate of its own kind, in the proxy namespace: GET getProperty(qname) *)
(* returning its result; SET setProperty(qname, value) reporting success    *)
(* whatever value came back; CALL callProperty(qname, args...) with the     *)
(* arguments in order, returning its result; DELETE deleteProperty(qname)   *)
(* returning the boolean coercion of its result.                            *)
C9_DelegateShape ==
    (pc = "returned" /\ op \in ScanOps /\ calls # <<>>)
        => /\ Len(calls) = 1
           /\ calls[1].name = [name |-> Some(DelegateOf(op)), ns |-> <<proxy_namespace>>]
           /\ calls[1].args[1].t = "QName"
           /\ calls[1].args[1].q.name = multiname.name.x
           /\ op = "get_property_local" =>
                 /\ Len(calls[1].args) = 1
                 /\ result = env.ret
           /\ op = "set_property_local" =>
                 /\ calls[1].args = <<calls[1].args[1], arguments[1]>>
                 /\ env.ret.ok => result = Ok(Unit)
           /\ op = "call_property_local" =>
                 /\ calls[1].args = <<calls[1].args[1]>> \o arguments
                 /\ result = env.ret
           /\ op = "delete_property_local" =>
                 /\ Len(calls[1].args) = 1
                 /\ env.ret.ok => result = Ok(coerce_to_boolean(env.ret.v))
                 /\ env.ret = Ok(Undefined) => result = Ok(FALSE)
                 /\ env.ret = Ok(ScriptObject(1)) => result = Ok(TRUE)

C9_Witness ==
    /\ pc = "returned"
    /\ op = "call_property_local"
    /\ arguments = <<Number(7), Undefined>>
    /\ Len(calls) = 1
    /\ calls[1].args = <<QNameValue(QName(NsPublic, "bar")), Number(7), Undefined>>
    /\ env.ret = Ok(String("hit"))
    /\ result = Ok(String("hit"))

(* C10: when the delegate call of any operation fails, or the u32 coercion  *)
(* of nextNameIndex's result fails, the operation returns that failure      *)
(* itself, after a single delegate call: no fallback result, no success, no *)
(* second call.                                                             *)
C10_FailurePropagates ==
    /\ (pc = "returned" /\ calls # <<>> /\ ~env.ret.ok)
          => (result = env.ret /\ Len(calls) = 1)
    /\ (pc = "returned" /\ op = "get_next_enumerant" /\ env.ret.ok
          /\ ~coerce_to_u32(env.ret.v).ok)
          => (result = Err(Thrown("TypeError: cannot convert object to primitive"))
              /\ Len(calls) = 1)

C10_Witness ==
    /\ pc = "returned"
    /\ op = "set_property_local"
    /\ calls # <<>>
    /\ env.ret = Err(Thrown("E2"))
    /\ result = Err(Thrown("E2"))

====
